---- MODULE Spec2Model ----
(***************************************************************************)
(* Ear-training app (Gehorstraning): the notation parser                   *)
(* (tokenizeNotes, normalizeNote, parseSequences), the sequence picker     *)
(* (pickRandom), the playback port (playSequence) and the round state      *)
(* machine of the App component (startRound, replay, addDegree,            *)
(* removeLast, submit, revealAnswer, tryAgain, the key handler and the     *)
(* rendered buttons).                                                      *)
(*                                                                         *)
(* A JavaScript string is modelled as the sequence of its characters,      *)
(* each character a one-character TLA+ string: "C," is <<"C", ",">>.       *)
(***************************************************************************)
EXTENDS Integers, Sequences, FiniteSets, TLC

(***************************************************************************)
(* Bounds of the model.                                                    *)
(***************************************************************************)
\* longest raw notation string the parser is applied to (besides the examples)
MaxLen == 3
\* longest modifier run of a token handed to normalizeNote
MaxMods == 5
\* longest answer the user types in a round
MaxAnswer == 3
\* most playback requests outstanding at once
MaxPlaybacks == 3
\* longest note list handed to playSequence of audio.ts
MaxNotes == 3
\* most milliseconds `await getPiano()` takes to resume
MaxLoad == 1
\* most milliseconds a timer fires after its delay has passed
MaxLate == 1

(***************************************************************************)
(* Character classes of the regular expressions.                           *)
(***************************************************************************)
\* [A-G]
UpperLetters == {"A", "B", "C", "D", "E", "F", "G"}
\* [a-g]
LowerLetters == {"a", "b", "c", "d", "e", "f", "g"}
\* [A-Ga-g]
NoteLetters == UpperLetters \cup LowerLetters
\* \d
DigitChars == {"0", "1", "2", "3", "4", "5", "6", "7", "8", "9"}
\* [,']
ModifierChars == {",", "'"}
\* \s (the whitespace the inputs of the model use)
WhitespaceChars == {" "}

\* String.prototype.toUpperCase / toLowerCase on one character
toUpperCase(ch) ==
  CASE ch = "a" -> "A" [] ch = "b" -> "B" [] ch = "c" -> "C" [] ch = "d" -> "D"
    [] ch = "e" -> "E" [] ch = "f" -> "F" [] ch = "g" -> "G" [] ch = "h" -> "H"
    [] ch = "x" -> "X" [] OTHER -> ch

toLowerCase(ch) ==
  CASE ch = "A" -> "a" [] ch = "B" -> "b" [] ch = "C" -> "c" [] ch = "D" -> "d"
    [] ch = "E" -> "e" [] ch = "F" -> "f" [] ch = "G" -> "g" [] ch = "H" -> "h"
    [] ch = "X" -> "x" [] OTHER -> ch

\* the decimal digit of a number 0..9
DigitChar(n) ==
  CASE n = 0 -> "0" [] n = 1 -> "1" [] n = 2 -> "2" [] n = 3 -> "3" [] n = 4 -> "4"
    [] n = 5 -> "5" [] n = 6 -> "6" [] n = 7 -> "7" [] n = 8 -> "8" [] OTHER -> "9"

\* the string a number is converted to by `letter + octave`
RECURSIVE NumberToString(_)
NumberToString(n) ==
  IF n < 0 THEN <<"-">> \o NumberToString(0 - n)
  ELSE IF n < 10 THEN <<DigitChar(n)>>
  ELSE NumberToString(n \div 10) \o <<DigitChar(n % 10)>>

\* NOTE_TO_DEGREE[key] ?? 0
NOTE_TO_DEGREE(key) ==
  CASE key = "C" -> 1 [] key = "D" -> 2 [] key = "E" -> 3 [] key = "F" -> 4
    [] key = "G" -> 5 [] key = "A" -> 6 [] key = "B" -> 7 [] OTHER -> 0

(***************************************************************************)
(* tokenizeNotes: strip whitespace, then all matches of the global regex   *)
(* "a note letter, then one digit or else a run of modifiers", scanning    *)
(* left to right; a character at which no match starts is skipped.         *)
(***************************************************************************)
IsNotWhitespace(ch) == ch \notin WhitespaceChars

\* a variant of ModifierRunEnd that consumes no modifier after the letter
ModifierRunEndNone(s, i) == i

\* the first index >= i of s that is no modifier character (Len(s)+1 if none)
RECURSIVE ModifierRunEnd(_, _)
ModifierRunEnd(s, i) ==
  IF i <= Len(s) /\ s[i] \in ModifierChars THEN ModifierRunEnd(s, i + 1) ELSE i

RECURSIVE MatchAll(_, _)
MatchAll(s, i) ==
  IF i > Len(s) THEN <<>>
  ELSE IF s[i] \in NoteLetters
    THEN IF i + 1 <= Len(s) /\ s[i + 1] \in DigitChars
           THEN <<SubSeq(s, i, i + 1)>> \o MatchAll(s, i + 2)
           ELSE LET j == ModifierRunEnd(s, i + 1)
                IN  <<SubSeq(s, i, j - 1)>> \o MatchAll(s, j)
    ELSE MatchAll(s, i + 1)

tokenizeNotes(input) ==
  LET stripped == SelectSeq(input, IsNotWhitespace)
  IN  MatchAll(stripped, 1)

(***************************************************************************)
(* normalizeNote: the canonical note name of a token, or null (modelled    *)
(* as the empty string, which `!normalized` treats alike).                 *)
(***************************************************************************)
Null == <<>>

Max(a, b) == IF a > b THEN a ELSE b
Min(a, b) == IF a < b THEN a ELSE b

\* a variant of ApplyModifiers that clamps the octave after every modifier
RECURSIVE ApplyModifiersClamped(_, _, _)
ApplyModifiersClamped(modifiers, i, octave) ==
  IF i > Len(modifiers) THEN octave
  ELSE ApplyModifiersClamped(modifiers, i + 1,
         Max(0, Min(7, IF modifiers[i] = "," THEN octave - 1
                       ELSE IF modifiers[i] = "'" THEN octave + 1
                       ELSE octave)))

\* the for-loop over the modifiers, from position i with the octave so far
RECURSIVE ApplyModifiers(_, _, _)
ApplyModifiers(modifiers, i, octave) ==
  IF i > Len(modifiers) THEN octave
  ELSE ApplyModifiers(modifiers, i + 1,
         IF modifiers[i] = "," THEN octave - 1
         ELSE IF modifiers[i] = "'" THEN octave + 1
         ELSE octave)

\* the regex: a note letter, then one digit, then the end
ExplicitMatch(token) ==
  Len(token) = 2 /\ token[1] \in NoteLetters /\ token[2] \in DigitChars

\* the regex: a note letter, then an optional run of modifiers, then the end
AbcMatch(token) ==
  /\ Len(token) >= 1
  /\ token[1] \in NoteLetters
  /\ \A i \in 2..Len(token) : token[i] \in ModifierChars

\* Math.max(0, Math.min(7, octave))
ClampOctave(octave) == Max(0, Min(7, octave))

\* the octave an ABC letter starts from: 5 if lower case, 4 if upper case
BaseOctave(letter) == IF letter = toLowerCase(letter) THEN 5 ELSE 4

normalizeNote(token) ==
  IF ExplicitMatch(token) THEN <<toUpperCase(token[1]), token[2]>>
  ELSE IF ~AbcMatch(token) THEN Null
  ELSE LET letter == token[1]
           modifiers == SubSeq(token, 2, Len(token))
           octave == ApplyModifiers(modifiers, 1, BaseOctave(letter))
       IN  <<toUpperCase(letter)>> \o NumberToString(ClampOctave(octave))

(***************************************************************************)
(* parseSequences: split on ";", trim, drop the empty segments, parse      *)
(* each segment, keep the non-empty sequences whose degrees are all > 0.   *)
(***************************************************************************)
\* String.prototype.split(";")
RECURSIVE SplitFrom(_, _, _)
SplitFrom(s, i, acc) ==
  IF i > Len(s) THEN <<acc>>
  ELSE IF s[i] = ";" THEN <<acc>> \o SplitFrom(s, i + 1, <<>>)
  ELSE SplitFrom(s, i + 1, Append(acc, s[i]))

Split(s) == SplitFrom(s, 1, <<>>)

\* String.prototype.trim
RECURSIVE TrimLeft(_)
TrimLeft(s) ==
  IF Len(s) > 0 /\ s[1] \in WhitespaceChars THEN TrimLeft(Tail(s)) ELSE s

RECURSIVE TrimRight(_)
TrimRight(s) ==
  IF Len(s) > 0 /\ s[Len(s)] \in WhitespaceChars
    THEN TrimRight(SubSeq(s, 1, Len(s) - 1)) ELSE s

Trim(s) == TrimRight(TrimLeft(s))

EmptySequence == [notes |-> <<>>, degrees |-> <<>>]

\* the for-loop over the tokens of one segment, from token i
RECURSIVE ParseTokens(_, _, _, _)
ParseTokens(tokens, i, notes, degrees) ==
  IF i > Len(tokens) THEN [notes |-> notes, degrees |-> degrees]
  ELSE LET normalized == normalizeNote(tokens[i])
       IN  IF normalized = Null THEN EmptySequence
           ELSE ParseTokens(tokens, i + 1,
                            Append(notes, normalized),
                            Append(degrees, NOTE_TO_DEGREE(normalized[1])))

parseSegment(seqStr) == ParseTokens(tokenizeNotes(seqStr), 1, <<>>, <<>>)

IsNonEmptyString(s) == Len(s) > 0

\* a variant of KeepSequence that tests the degrees only
KeepSequenceDegreesOnly(seq) ==
  \A i \in 1..Len(seq.degrees) : seq.degrees[i] > 0

KeepSequence(seq) ==
  Len(seq.notes) > 0 /\ \A i \in 1..Len(seq.degrees) : seq.degrees[i] > 0

\* .split(";").map((s) => s.trim()).filter(Boolean)
Segments(raw) ==
  LET parts == Split(raw)
  IN  SelectSeq([i \in 1..Len(parts) |-> Trim(parts[i])], IsNonEmptyString)

\* .map((seqStr) => ...) over a list of segments
ParseAll(segments) == [i \in 1..Len(segments) |-> parseSegment(segments[i])]

parseSequences(raw) == SelectSeq(ParseAll(Segments(raw)), KeepSequence)

(***************************************************************************)
(* pickRandom: the set of results the random draw can give.  A Sequence    *)
(* is an object compared by reference (item !== exclude): the model names  *)
(* it by its index in the array, and 0 is null.                            *)
(***************************************************************************)
NullRef == 0

pickRandom(arr, exclude) ==
  IF Len(arr) <= 1 THEN {1}
  ELSE {item \in 1..Len(arr) : item # exclude}

(***************************************************************************)
(* State of the App component.                                             *)
(***************************************************************************)
VARIABLES
  param,             \* the raw "sequences"/"s" URL parameter
  mounted,           \* the mount effect has run
  sequences,         \* useState<Sequence[]>([])
  current,           \* useState<Sequence | null>(null), as an index of sequences
  userAnswer,        \* useState<number[]>([])
  gameState,         \* useState<GameState>("idle")
  isCorrect,         \* useState<boolean | null>(null): "null", "true", "false"
  showAnswer,        \* useState(false)
  isPlaying,         \* useState(false)
  isLoading,         \* useState(true)
  startRoundCurrent, \* the `current` the memoized startRound closed over
  playbacks,         \* the playSequence promises not yet resolved, in call order
  event,             \* the last event delivered to the component
  token,             \* a token handed to normalizeNote
  normalized,        \* [done, value]: what normalizeNote returned for it
  playNotes,         \* `notes`, the argument of one call of playSequence of audio.ts
  pc,                \* where that call is: "none", "getPiano", "timeout", "resolved"
  clock,             \* milliseconds since that call
  ctxTime,           \* [at, currentTime]: the reading of ctx.currentTime and its instant
  played,            \* the calls p.play(note, when, {duration}), in order
  timeout            \* [at, delay]: the setTimeout call, its instant and its delay

vars == <<param, mounted, sequences, current, userAnswer, gameState, isCorrect,
          showAnswer, isPlaying, isLoading, startRoundCurrent, playbacks, event,
          token, normalized, playNotes, pc, clock, ctxTime, played, timeout>>

\* the state of a round, which the transitions of the round machine act on
roundVars == <<current, userAnswer, gameState, isCorrect, showAnswer>>

\* the part of the state the parser specifications leave alone
normalizeVars == <<token, normalized>>

\* the state of one call of playSequence of audio.ts, followed in milliseconds
audioVars == <<playNotes, pc, clock, ctxTime, played, timeout>>

(***************************************************************************)
(* Inputs of the model.                                                    *)
(***************************************************************************)
\* the README's example: ?s=CFGc;C,EGc
ExampleParam == <<"C", "F", "G", "c", ";", "C", ",", "E", "G", "c">>

\* URL parameters the round machine is run with: two and three sequences of
\* different lengths, a single sequence, and no sequence at all
Params == { <<"C", "D", ";", "D">>, <<"D", ";", "C", ";", "c", "d">>, <<"C">>, <<>> }

\* the degrees the user types or clicks (the code accepts 1..7 alike)
TypedDegrees == {1, 2}

\* the keys the user presses: e.key of the keydown event
Keys == {"Enter", "1", "2", "8", "Backspace", "r", "s"}

\* parseInt(e.key); NaN is modelled as -1, which fails every comparison made
parseInt(key) ==
  CASE key = "1" -> 1 [] key = "2" -> 2 [] key = "8" -> 8 [] OTHER -> -1

(***************************************************************************)
(* playSequence(notes): the promise resolves notes.length slots of         *)
(* noteDuration + gap after the call.  Time advances in slots.             *)
(***************************************************************************)
playSequence(owner, seq) ==
  /\ Len(playbacks) < MaxPlaybacks
  /\ playbacks' = Append(playbacks,
       [owner |-> owner, seq |-> seq, remaining |-> Len(sequences[seq].notes)])

RemoveAt(s, i) == SubSeq(s, 1, i - 1) \o SubSeq(s, i + 1, Len(s))

\* the timer of playbacks[i] is due, and no timer set earlier for the same
\* duration is still waiting
TimerDue(i) ==
  /\ playbacks[i].remaining = 0
  /\ \A j \in 1..(i - 1) :
       ~(playbacks[j].remaining = 0 /\
         Len(sequences[playbacks[j].seq].notes) = Len(sequences[playbacks[i].seq].notes))

(***************************************************************************)
(* The functions of the component.  Each sets the state a handler can      *)
(* change (handlerVars); React renders before the next event is delivered. *)
(***************************************************************************)
handlerVars ==
  <<current, userAnswer, gameState, isCorrect, showAnswer, isPlaying, playbacks>>

\* a variant of startRound that does not call setShowAnswer(false)
startRoundKeepsReveal ==
  IF Len(sequences) = 0 THEN UNCHANGED handlerVars
  ELSE \E seq \in pickRandom(sequences, startRoundCurrent) :
         /\ current' = seq
         /\ userAnswer' = <<>>
         /\ isCorrect' = "null"
         /\ UNCHANGED showAnswer
         /\ gameState' = "playing"
         /\ isPlaying' = TRUE
         /\ playSequence("startRound", seq)

\* a variant of startRound without the test of sequences.length: the state is
\* set with the undefined arr[0], then `seq!.notes` throws before playSequence
startRoundNoEmptyTest ==
  IF Len(sequences) = 0
    THEN /\ current' = NullRef
         /\ userAnswer' = <<>>
         /\ isCorrect' = "null"
         /\ showAnswer' = FALSE
         /\ gameState' = "playing"
         /\ isPlaying' = TRUE
         /\ UNCHANGED playbacks
    ELSE \E seq \in pickRandom(sequences, startRoundCurrent) :
           /\ current' = seq
           /\ userAnswer' = <<>>
           /\ isCorrect' = "null"
           /\ showAnswer' = FALSE
           /\ gameState' = "playing"
           /\ isPlaying' = TRUE
           /\ playSequence("startRound", seq)

\* useCallback(..., [sequences]): reads `current` as it was when sequences was set
startRound ==
  IF Len(sequences) = 0 THEN UNCHANGED handlerVars
  ELSE \E seq \in pickRandom(sequences, startRoundCurrent) :
         /\ current' = seq
         /\ userAnswer' = <<>>
         /\ isCorrect' = "null"
         /\ showAnswer' = FALSE
         /\ gameState' = "playing"
         /\ isPlaying' = TRUE
         /\ playSequence("startRound", seq)

\* a variant of startRoundResume that does not call setGameState("answering")
startRoundResumeStaysPlaying ==
  /\ isPlaying' = FALSE
  /\ UNCHANGED <<current, userAnswer, gameState, isCorrect, showAnswer>>

\* after `await playSequence(seq.notes)` in startRound
startRoundResume ==
  /\ isPlaying' = FALSE
  /\ gameState' = "answering"
  /\ UNCHANGED <<current, userAnswer, isCorrect, showAnswer>>

\* a variant of replay that also empties the answer
replayClearsAnswer ==
  IF current = NullRef \/ isPlaying THEN UNCHANGED handlerVars
  ELSE /\ isPlaying' = TRUE
       /\ playSequence("replay", current)
       /\ userAnswer' = <<>>
       /\ UNCHANGED <<current, gameState, isCorrect, showAnswer>>

\* useCallback(..., [current, isPlaying])
replay ==
  IF current = NullRef \/ isPlaying THEN UNCHANGED handlerVars
  ELSE /\ isPlaying' = TRUE
       /\ playSequence("replay", current)
       /\ UNCHANGED roundVars

\* a variant of replayResume that moves to `answering` as startRound does
replayResumeToAnswering ==
  /\ isPlaying' = FALSE
  /\ gameState' = "answering"
  /\ UNCHANGED <<current, userAnswer, isCorrect, showAnswer>>

\* after `await playSequence(current.notes)` in replay
replayResume ==
  /\ isPlaying' = FALSE
  /\ UNCHANGED roundVars

addDegree(degree) ==
  IF gameState # "answering" THEN UNCHANGED handlerVars
  ELSE /\ Len(userAnswer) < MaxAnswer
       /\ userAnswer' = Append(userAnswer, degree)
       /\ UNCHANGED <<current, gameState, isCorrect, showAnswer, isPlaying, playbacks>>

\* a variant of removeLast that removes the first element: prev.slice(1)
removeLastDropsFirst ==
  IF gameState # "answering" THEN UNCHANGED handlerVars
  ELSE /\ userAnswer' = SubSeq(userAnswer, 2, Len(userAnswer))
       /\ UNCHANGED <<current, gameState, isCorrect, showAnswer, isPlaying, playbacks>>

removeLast ==
  IF gameState # "answering" THEN UNCHANGED handlerVars
  ELSE /\ userAnswer' = SubSeq(userAnswer, 1, Len(userAnswer) - 1)
       /\ UNCHANGED <<current, gameState, isCorrect, showAnswer, isPlaying, playbacks>>

\* a variant of Grade without the comparison of the lengths
GradeNoLength(answer, degrees) ==
  \A i \in 1..Len(answer) : i <= Len(degrees) => answer[i] = degrees[i]

\* userAnswer.length === degrees.length && userAnswer.every((d, i) => d === degrees[i])
Grade(answer, degrees) ==
  /\ Len(answer) = Len(degrees)
  /\ \A i \in 1..Len(answer) : answer[i] = degrees[i]

\* a variant of submit without the test of userAnswer.length
submitNoEmptyTest ==
  IF current = NullRef THEN UNCHANGED handlerVars
  ELSE /\ isCorrect' =
            (IF Grade(userAnswer, sequences[current].degrees) THEN "true" ELSE "false")
       /\ gameState' = "result"
       /\ UNCHANGED <<current, userAnswer, showAnswer, isPlaying, playbacks>>

submit ==
  IF current = NullRef \/ Len(userAnswer) = 0 THEN UNCHANGED handlerVars
  ELSE /\ isCorrect' =
            (IF Grade(userAnswer, sequences[current].degrees) THEN "true" ELSE "false")
       /\ gameState' = "result"
       /\ UNCHANGED <<current, userAnswer, showAnswer, isPlaying, playbacks>>

revealAnswer ==
  /\ showAnswer' = TRUE
  /\ UNCHANGED <<current, userAnswer, gameState, isCorrect, isPlaying, playbacks>>

\* useCallback(..., [current, isPlaying])
\* a variant of tryAgain that does not call setIsCorrect(null)
tryAgainKeepsGrading ==
  IF current = NullRef \/ isPlaying THEN UNCHANGED handlerVars
  ELSE /\ userAnswer' = <<>>
       /\ gameState' = "playing"
       /\ isPlaying' = TRUE
       /\ playSequence("tryAgain", current)
       /\ UNCHANGED <<current, isCorrect, showAnswer>>

\* a variant of tryAgain that returns to `answering` without a playback
tryAgainNoPlayback ==
  IF current = NullRef \/ isPlaying THEN UNCHANGED handlerVars
  ELSE /\ userAnswer' = <<>>
       /\ isCorrect' = "null"
       /\ gameState' = "answering"
       /\ UNCHANGED <<current, showAnswer, isPlaying, playbacks>>

tryAgain ==
  IF current = NullRef \/ isPlaying THEN UNCHANGED handlerVars
  ELSE /\ userAnswer' = <<>>
       /\ isCorrect' = "null"
       /\ gameState' = "playing"
       /\ isPlaying' = TRUE
       /\ playSequence("tryAgain", current)
       /\ UNCHANGED <<current, showAnswer>>

\* after `await playSequence(current.notes)` in tryAgain
tryAgainResume ==
  /\ isPlaying' = FALSE
  /\ gameState' = "answering"
  /\ UNCHANGED <<current, userAnswer, isCorrect, showAnswer>>

IsEnterOrSpace(key) == key = "Enter" \/ key = " "

\* a variant of keyHandler whose last branch is a plain else
keyHandlerResultElse(key) ==
  IF gameState = "idle" /\ ~isLoading /\ IsEnterOrSpace(key) THEN startRound
  ELSE IF gameState = "answering" THEN
    IF parseInt(key) >= 1 /\ parseInt(key) <= 7 THEN addDegree(parseInt(key))
    ELSE IF IsEnterOrSpace(key) THEN submit
    ELSE IF key = "Backspace" THEN removeLast
    ELSE IF key = "r" \/ key = "R" THEN replay
    ELSE UNCHANGED handlerVars
  ELSE
    IF IsEnterOrSpace(key) /\ (isCorrect = "true" \/ showAnswer) THEN startRound
    ELSE IF IsEnterOrSpace(key) /\ isCorrect # "true" /\ ~showAnswer THEN tryAgain
    ELSE IF (key = "s" \/ key = "S") /\ isCorrect # "true" /\ ~showAnswer
      THEN revealAnswer
    ELSE IF key = "r" \/ key = "R" THEN replay
    ELSE UNCHANGED handlerVars

\* keyHandlerRef.current, reassigned at every render
keyHandler(key) ==
  IF gameState = "idle" /\ ~isLoading /\ IsEnterOrSpace(key) THEN startRound
  ELSE IF gameState = "answering" THEN
    IF parseInt(key) >= 1 /\ parseInt(key) <= 7 THEN addDegree(parseInt(key))
    ELSE IF IsEnterOrSpace(key) THEN submit
    ELSE IF key = "Backspace" THEN removeLast
    ELSE IF key = "r" \/ key = "R" THEN replay
    ELSE UNCHANGED handlerVars
  ELSE IF gameState = "result" THEN
    IF IsEnterOrSpace(key) /\ (isCorrect = "true" \/ showAnswer) THEN startRound
    ELSE IF IsEnterOrSpace(key) /\ isCorrect # "true" /\ ~showAnswer THEN tryAgain
    ELSE IF (key = "s" \/ key = "S") /\ isCorrect # "true" /\ ~showAnswer
      THEN revealAnswer
    ELSE IF key = "r" \/ key = "R" THEN replay
    ELSE UNCHANGED handlerVars
  ELSE UNCHANGED handlerVars

(***************************************************************************)
(* Actions: the mount effect, the events the user can deliver (a key at    *)
(* any time, a click on a button that is rendered and enabled), the        *)
(* passing of time and the resolution of a playback promise.               *)
(***************************************************************************)
fixedVars == <<param, mounted, sequences, isLoading, startRoundCurrent>>

\* useEffect(..., []): parse the parameter; startRound is memoized anew
MountEffect ==
  /\ ~mounted
  /\ mounted' = TRUE
  /\ sequences' = parseSequences(param)
  /\ startRoundCurrent' = current
  /\ event' = <<"effect", "mount">>
  /\ UNCHANGED <<param, isLoading, handlerVars, normalizeVars, audioVars>>

\* loadAudio().then(() => setIsLoading(false))
LoadAudioDone ==
  /\ mounted
  /\ isLoading
  /\ isLoading' = FALSE
  /\ event' = <<"effect", "loaded">>
  /\ UNCHANGED <<param, mounted, sequences, startRoundCurrent, handlerVars, normalizeVars, audioVars>>

KeyDown(key) ==
  /\ mounted
  /\ keyHandler(key)
  /\ event' = <<"keydown", key>>
  /\ UNCHANGED <<fixedVars, normalizeVars, audioVars>>

\* the buttons are rendered only when sequences.length > 0
Click(name, rendered, handler) ==
  /\ mounted
  /\ Len(sequences) > 0
  /\ rendered
  /\ handler
  /\ event' = <<"click", name>>
  /\ UNCHANGED <<fixedVars, normalizeVars, audioVars>>

\* DEGREE_LABELS[degree - 1]
DEGREE_LABELS(degree) == DigitChar(degree)

ClickStarta == Click("Starta", gameState = "idle" /\ ~isLoading, startRound)

ClickDegree(degree) ==
  Click(DEGREE_LABELS(degree), gameState = "answering", addDegree(degree))

ClickAngra ==
  Click("Angra", gameState = "answering" /\ Len(userAnswer) # 0, removeLast)

ClickSpelaIgen ==
  Click("Spela igen", gameState = "answering" /\ ~isPlaying, replay)

ClickKolla ==
  Click("Kolla", gameState = "answering" /\ Len(userAnswer) # 0, submit)

\* a variant of ClickForsokIgen whose button is rendered in every `result`
ClickForsokIgenAnyResult ==
  Click("Forsok igen", gameState = "result" /\ ~isPlaying, tryAgain)

ClickForsokIgen ==
  Click("Forsok igen",
        gameState = "result" /\ isCorrect # "true" /\ ~showAnswer /\ ~isPlaying,
        tryAgain)

\* a variant of ClickVisaSvar whose button is rendered in every `result`
ClickVisaSvarAnyResult ==
  Click("Visa svar", gameState = "result", revealAnswer)

ClickVisaSvar ==
  Click("Visa svar", gameState = "result" /\ isCorrect # "true" /\ ~showAnswer,
        revealAnswer)

ClickNasta ==
  Click("Nasta", gameState = "result" /\ (isCorrect = "true" \/ showAnswer),
        startRound)

\* one slot of noteDuration + gap passes; a due timer fires first
Tick ==
  /\ Len(playbacks) > 0
  /\ \A i \in 1..Len(playbacks) : playbacks[i].remaining > 0
  /\ playbacks' = [i \in 1..Len(playbacks) |->
                     [playbacks[i] EXCEPT !.remaining = @ - 1]]
  /\ event' = <<"timer", "tick">>
  /\ UNCHANGED <<fixedVars, roundVars, isPlaying, normalizeVars, audioVars>>

\* setTimeout(resolve, totalDuration * 1000) fires: the awaiting function resumes
PlaybackDone(i) ==
  /\ i \in 1..Len(playbacks)
  /\ TimerDue(i)
  /\ playbacks' = RemoveAt(playbacks, i)
  /\ CASE playbacks[i].owner = "startRound" -> startRoundResume
       [] playbacks[i].owner = "tryAgain" -> tryAgainResume
       [] OTHER -> replayResume
  /\ event' = <<"resolve", playbacks[i].owner>>
  /\ UNCHANGED <<fixedVars, normalizeVars, audioVars>>

(***************************************************************************)
(* JavaScript numbers: IEEE-754 binary64, computed exactly.                *)
(*                                                                         *)
(* A natural number of any size is the sequence of its bits, the least     *)
(* significant first, with no leading zero (0 is the empty sequence).  A   *)
(* non-negative number is a record [m, e] of value m * 2^e; it is a        *)
(* double when m has at most Precision bits.  The numbers of the playback  *)
(* are far from the subnormal and the overflow range, so the exponent is   *)
(* not bounded here.  Sums and products are computed on limbs of LimbBits  *)
(* bits, small enough for the product of two limbs to be an integer of     *)
(* the model checker.                                                      *)
(***************************************************************************)
\* significand bits of a binary64
Precision == 53

\* bits of a limb
LimbBits == 13

Base == 2^LimbBits

\* the one element of a set of one element: {F(x) : x \in {e}} computes e
\* once, however often F names x
The(set) == CHOOSE x \in set : TRUE

BitLength(k) == CHOOSE n \in 0..30 : k < 2^n /\ (n = 0 \/ k >= 2^(n - 1))

BitsOf(k) == [i \in 1..BitLength(k) |-> (k \div 2^(i - 1)) % 2]

Bit(bits, i) == IF i \in 1..Len(bits) THEN bits[i] ELSE 0

\* without the leading zeros
Strip(bits) ==
  The({SubSeq(v, 1, IF \E i \in 1..Len(v) : v[i] = 1
                    THEN CHOOSE i \in 1..Len(v) :
                           v[i] = 1 /\ \A j \in (i + 1)..Len(v) : v[j] = 0
                    ELSE 0) :
         v \in {bits}})

RECURSIVE LimbFrom(_, _, _)
LimbFrom(bits, j, t) ==
  IF t = LimbBits THEN 0
  ELSE Bit(bits, LimbBits * (j - 1) + t + 1) * 2^t + LimbFrom(bits, j, t + 1)

LimbsOf(bits) ==
  The({[j \in 1..((Len(v) + LimbBits - 1) \div LimbBits) |-> LimbFrom(v, j, 0)] :
         v \in {bits}})

BitsOfLimbs(limbs) ==
  The({Strip([i \in 1..(Len(v) * LimbBits) |->
                (v[(i - 1) \div LimbBits + 1] \div 2^((i - 1) % LimbBits)) % 2]) :
         v \in {limbs}})

Limb(limbs, j) == IF j \in 1..Len(limbs) THEN limbs[j] ELSE 0

RECURSIVE AddLimbs(_, _, _, _)
AddLimbs(a, b, j, carry) ==
  IF j > Len(a) /\ j > Len(b) THEN (IF carry = 0 THEN <<>> ELSE <<carry>>)
  ELSE The({<<sum % Base>> \o AddLimbs(a, b, j + 1, sum \div Base) :
              sum \in {Limb(a, j) + Limb(b, j) + carry}})

BitsAdd(a, b) ==
  The({BitsOfLimbs(AddLimbs(x[1], x[2], 1, 0)) : x \in {<<LimbsOf(a), LimbsOf(b)>>}})

\* the sum of the products a[i] * b[j] of one column, i + j = k + 1
RECURSIVE ColumnFrom(_, _, _, _)
ColumnFrom(a, b, k, i) ==
  IF i > Len(a) THEN 0
  ELSE a[i] * Limb(b, k + 1 - i) + ColumnFrom(a, b, k, i + 1)

RECURSIVE MulLimbs(_, _, _, _)
MulLimbs(a, b, k, carry) ==
  IF k > Len(a) + Len(b) THEN <<>>
  ELSE The({<<sum % Base>> \o MulLimbs(a, b, k + 1, sum \div Base) :
              sum \in {ColumnFrom(a, b, k, 1) + carry}})

BitsMul(a, b) ==
  The({BitsOfLimbs(MulLimbs(x[1], x[2], 1, 0)) : x \in {<<LimbsOf(a), LimbsOf(b)>>}})

\* limbs \div den and limbs % den, from limb j down, r the remainder so far
RECURSIVE DivLimbs(_, _, _, _)
DivLimbs(limbs, den, j, r) ==
  IF j = 0 THEN [q |-> <<>>, r |-> r]
  ELSE The({[q |-> x[2].q \o <<x[1] \div den>>, r |-> x[2].r] :
              x \in {<<r * Base + limbs[j],
                       DivLimbs(limbs, den, j - 1, (r * Base + limbs[j]) % den)>>}})

RECURSIVE ValueFrom(_, _)
ValueFrom(limbs, j) ==
  IF j > Len(limbs) THEN 0 ELSE limbs[j] + Base * ValueFrom(limbs, j + 1)

ValueOf(bits) == The({ValueFrom(v, 1) : v \in {LimbsOf(bits)}})

ShiftLeft(bits, n) ==
  The({IF v = <<>> THEN <<>> ELSE [i \in 1..n |-> 0] \o v : v \in {bits}})

BitsLeq(a, b) ==
  \E x \in {<<a, b>>} :
    \/ Len(x[1]) < Len(x[2])
    \/ /\ Len(x[1]) = Len(x[2])
       /\ \/ x[1] = x[2]
          \/ \E top \in 1..Len(x[1]) :
               /\ x[1][top] < x[2][top]
               /\ \A j \in (top + 1)..Len(x[1]) : x[1][j] = x[2][j]

\* the exact sum, product and order of two numbers [m, e]
ExactAdd(x, y) ==
  The({[m |-> BitsAdd(ShiftLeft(v[1].m, v[1].e - v[3]), ShiftLeft(v[2].m, v[2].e - v[3])),
        e |-> v[3]] :
         v \in {<<x, y, Min(x.e, y.e)>>}})

ExactMul(x, y) ==
  The({[m |-> BitsMul(v[1].m, v[2].m), e |-> v[1].e + v[2].e] : v \in {<<x, y>>}})

ExactLeq(x, y) ==
  \E v \in {<<x, y, Min(x.e, y.e)>>} :
    BitsLeq(ShiftLeft(v[1].m, v[1].e - v[3]), ShiftLeft(v[2].m, v[2].e - v[3]))

\* the significand cut to Precision bits and moved to the nearest, ties to even
RoundBits(m, e) ==
  IF Len(m) <= Precision THEN [m |-> m, e |-> e]
  ELSE LET drop == Len(m) - Precision
           kept == SubSeq(m, drop + 1, Len(m))
           half == m[drop] = 1
           more == \E i \in 1..(drop - 1) : m[i] = 1
           up == half /\ (more \/ kept[1] = 1)
       IN  The({IF Len(rounded) > Precision
                THEN [m |-> Tail(rounded), e |-> e + drop + 1]
                ELSE [m |-> rounded, e |-> e + drop] :
                  rounded \in {IF up THEN BitsAdd(kept, <<1>>) ELSE kept}})

\* round to nearest, ties to even: the rounding of every binary64 operation
RoundNearestEven(x) == The({RoundBits(v.m, v.e) : v \in {x}})

\* an integer-valued number, as the loop index i and notes.length are
NumberOf(k) == [m |-> BitsOf(k), e |-> 0]

\* a + b and a * b of two JavaScript numbers
NumberAdd(x, y) == RoundNearestEven(ExactAdd(x, y))

NumberMul(x, y) == RoundNearestEven(ExactMul(x, y))

\* bits of the quotient computed below the binary point, before the rounding
FractionBits == 6 * LimbBits

\* num / den cut off after FractionBits bits, with one more bit 1 below when
\* a remainder is left, for the rounding to decide on
Quotient(num, den) ==
  The({IF d.r = 0 THEN [m |-> BitsOfLimbs(d.q), e |-> -FractionBits]
       ELSE [m |-> <<1>> \o BitsOfLimbs(d.q), e |-> -FractionBits - 1] :
         d \in {The({DivLimbs(v, den, Len(v), 0) :
                       v \in {LimbsOf(ShiftLeft(BitsOf(num), FractionBits))}})}})

\* the binary64 nearest to num / den: what the literal 0.1 (1 / 10) denotes
NumberDiv(num, den) == RoundNearestEven(Quotient(num, den))

\* the conversion of a number to a Web IDL `long`, the type of the delay of
\* setTimeout: the fraction is cut off (the delays here are far below 2^31)
ToLong(x) ==
  The({IF v.e >= 0 THEN ValueOf(ShiftLeft(v.m, v.e))
       ELSE ValueOf(SubSeq(v.m, 1 - v.e, Len(v.m))) : v \in {x}})

(***************************************************************************)
(* audio.ts: one call of playSequence, followed in milliseconds.           *)
(*                                                                         *)
(* `clock` counts the milliseconds since the call.  The audio clock        *)
(* (ctx.currentTime, in seconds) runs at the same rate: a note scheduled   *)
(* at the audio time `when` sounds (when - currentTime) seconds after the  *)
(* instant at which currentTime was read.                                  *)
(***************************************************************************)
\* const noteDuration = 0.5
noteDuration == NumberDiv(5, 10)

\* const gap = 0.1
gap == NumberDiv(1, 10)

\* the literal 0.05 of `ctx.currentTime + 0.05`
startDelay == NumberDiv(5, 100)

\* the factor of `totalDuration * 1000`
MsPerSecond == 1000

\* readings of ctx.currentTime: a context that has not started, one render
\* quantum of 128 frames at 44100 Hz, and 300 of them
CurrentTimes == {NumberOf(0), NumberDiv(128, 44100), NumberDiv(300 * 128, 44100)}

\* the note lists playSequence is called with: only their length matters
NoteLists == {[i \in 1..n |-> <<"C", "4">>] : n \in 0..MaxNotes}

\* no call of playSequence is followed
AudioIdle ==
  /\ playNotes = <<>>
  /\ pc = "none"
  /\ clock = 0
  /\ ctxTime = [at |-> 0, currentTime |-> NumberOf(0)]
  /\ played = <<>>
  /\ timeout = [at |-> 0, delay |-> 0]

\* `await getPiano()` resumes: the body of playSequence runs to its return,
\* scheduling every note and setting the timer
GetPianoResolved ==
  /\ pc = "getPiano"
  /\ \E currentTime \in CurrentTimes :
       LET startTime == NumberAdd(currentTime, startDelay)
           totalDuration ==
             NumberMul(NumberOf(Len(playNotes)), NumberAdd(noteDuration, gap))
       IN  /\ ctxTime' = [at |-> clock, currentTime |-> currentTime]
           /\ played' = [i \in 1..Len(playNotes) |->
                 [note |-> Trim(playNotes[i]),
                  when |-> NumberAdd(startTime,
                             NumberMul(NumberOf(i - 1), NumberAdd(noteDuration, gap))),
                  duration |-> noteDuration]]
           /\ timeout' = [at |-> clock,
                          delay |-> ToLong(NumberMul(totalDuration, NumberOf(MsPerSecond)))]
  /\ pc' = "timeout"
  /\ UNCHANGED <<playNotes, clock, fixedVars, handlerVars, event, normalizeVars>>

\* a millisecond passes
ClockTick ==
  /\ \/ pc = "getPiano" /\ clock < MaxLoad
     \/ pc = "timeout" /\ clock < timeout.at + timeout.delay + MaxLate
  /\ clock' = clock + 1
  /\ UNCHANGED <<playNotes, pc, ctxTime, played, timeout,
                 fixedVars, handlerVars, event, normalizeVars>>

\* the timer task runs `resolve`: the promise playSequence returned is resolved
TimeoutFires ==
  /\ pc = "timeout"
  /\ clock >= timeout.at + timeout.delay
  /\ pc' = "resolved"
  /\ UNCHANGED <<playNotes, clock, ctxTime, played, timeout,
                 fixedVars, handlerVars, event, normalizeVars>>

NoEvent == <<"none", "none">>

MachineInit ==
  /\ mounted = FALSE
  /\ sequences = <<>>
  /\ current = NullRef
  /\ userAnswer = <<>>
  /\ gameState = "idle"
  /\ isCorrect = "null"
  /\ showAnswer = FALSE
  /\ isPlaying = FALSE
  /\ isLoading = TRUE
  /\ startRoundCurrent = NullRef
  /\ playbacks = <<>>
  /\ event = NoEvent

NormalizeIdle ==
  /\ token = <<>>
  /\ normalized = [done |-> FALSE, value |-> Null]

Init ==
  /\ param \in Params
  /\ MachineInit
  /\ NormalizeIdle
  /\ AudioIdle

Next ==
  \/ MountEffect
  \/ LoadAudioDone
  \/ \E key \in Keys : KeyDown(key)
  \/ ClickStarta
  \/ \E degree \in TypedDegrees : ClickDegree(degree)
  \/ ClickAngra
  \/ ClickSpelaIgen
  \/ ClickKolla
  \/ ClickForsokIgen
  \/ ClickVisaSvar
  \/ ClickNasta
  \/ Tick
  \/ \E i \in 1..MaxPlaybacks : PlaybackDone(i)

Spec == Init /\ [][Next]_vars

\* the App with time passing and every timer of playSequence firing: the
\* event loop runs a timer task once its delay has passed
SpecLive ==
  /\ Init
  /\ [][Next]_vars
  /\ WF_vars(Tick)
  /\ WF_vars(\E i \in 1..MaxPlaybacks : PlaybackDone(i))

(***************************************************************************)
(* Vocabulary of the claims about the round machine.                       *)
(***************************************************************************)
\* the playbacks requested by startRound or tryAgain that have not resolved
RoundPlaybacks ==
  {i \in 1..Len(playbacks) : playbacks[i].owner \in {"startRound", "tryAgain"}}

\* this step calls playSequence on behalf of `owner`
Requests(owner) ==
  /\ Len(playbacks') = Len(playbacks) + 1
  /\ playbacks'[Len(playbacks')].owner = owner

\* this step resolves the one playback that startRound or tryAgain is awaiting
RoundPlaybackResolves ==
  \E i \in RoundPlaybacks :
    /\ playbacks[i].remaining = 0
    /\ playbacks[i].seq = current
    /\ playbacks' = RemoveAt(playbacks, i)

\* this step delivers a replay request: the R key or the "Spela igen" button
ReplayRequested ==
  /\ gameState \in {"answering", "result"}
  /\ event' \in {<<"keydown", "r">>, <<"click", "Spela igen">>}

\* this step delivers a request for addDegree, removeLast, submit, retry,
\* reveal or advance
RoundEventRequested ==
  \/ event'[1] = "keydown" /\ event'[2] \in {"1", "2", "Backspace", "Enter", "s"}
  \/ event'[1] = "click" /\ event'[2] \notin {"Spela igen", "Starta"}

\* this step delivers an event of the user
UserEvent == event'[1] \in {"keydown", "click"}

\* this step delivers a submit request in `answering` with a non-empty answer
SubmitRequested ==
  /\ gameState = "answering"
  /\ Len(userAnswer) > 0
  /\ event' \in {<<"keydown", "Enter">>, <<"click", "Kolla">>}

IsPrefix(a, b) == Len(a) <= Len(b) /\ \A i \in 1..Len(a) : a[i] = b[i]

(***************************************************************************)
(* C1. No-repeat selection: with at least two sequences, a round begun by  *)
(* startRound after an earlier round plays a sequence other than the one   *)
(* of that earlier round.                                                  *)
(***************************************************************************)
C1_NoRepeat ==
  [][(Requests("startRound") /\ Len(sequences) >= 2 /\ current # NullRef)
       => current' # current]_vars

(***************************************************************************)
(* C2. Suspend contract: `playing` holds exactly one outstanding playback  *)
(* of startRound or tryAgain (no other state holds one), the only step     *)
(* out of `playing` is the resolution of that playback, it leads to        *)
(* `answering`, and `answering` is entered in no other way.                *)
(***************************************************************************)
C2_SuspendContract ==
  [][/\ Cardinality(RoundPlaybacks) = (IF gameState = "playing" THEN 1 ELSE 0)
     /\ (gameState = "playing" /\ gameState' # "playing")
          => (gameState' = "answering" /\ RoundPlaybackResolves)
     /\ (gameState # "answering" /\ gameState' = "answering")
          => (gameState = "playing" /\ RoundPlaybackResolves)]_vars

\* the playback of a retry has resolved into `answering` while a replay's
\* playback is still outstanding
C2_Witness ==
  /\ gameState = "answering"
  /\ event = <<"resolve", "tryAgain">>
  /\ Len(playbacks) > 0

(***************************************************************************)
(* C3. Replay guard: a replay request in `answering` or `result` made      *)
(* while an earlier playback has not resolved requests no playback and     *)
(* changes no state.                                                       *)
(***************************************************************************)
C3_ReplayGuard ==
  [][(ReplayRequested /\ Len(playbacks) > 0) => UNCHANGED handlerVars]_vars

(***************************************************************************)
(* C4 as claimed: while any playback is outstanding, a request for         *)
(* addDegree, removeLast, submit, retry, reveal or advance leaves the      *)
(* round unchanged.                                                        *)
(***************************************************************************)
C4_AnyPlaybackBlocks ==
  [][(Len(playbacks) > 0 /\ RoundEventRequested) => UNCHANGED roundVars]_vars

(***************************************************************************)
(* C4 as amended: while the playback requested by start, advance or retry  *)
(* is outstanding, no event of the user changes gameState, the answer,     *)
(* the grading, the revealed flag or the current sequence.                 *)
(***************************************************************************)
C4_RoundPlaybackBlocks ==
  [][(RoundPlaybacks # {} /\ UserEvent) => UNCHANGED roundVars]_vars

\* a degree key was pressed while startRound's playback was outstanding
C4_Witness ==
  /\ RoundPlaybacks # {}
  /\ gameState = "playing"
  /\ event = <<"keydown", "1">>

(***************************************************************************)
(* C5. Grading: a submit in `answering` with a non-empty answer leads to   *)
(* `result`, graded correct if and only if the answer equals the degree    *)
(* list of the current sequence, and incorrect otherwise.                  *)
(***************************************************************************)
C5_Grading ==
  [][SubmitRequested =>
       /\ gameState' = "result"
       /\ isCorrect' = (IF userAnswer = sequences[current].degrees
                          THEN "true" ELSE "false")
       /\ UNCHANGED <<current, userAnswer>>]_vars

\* a strict prefix of the target has been submitted and graded incorrect
C5_Witness ==
  /\ gameState = "result"
  /\ event \in {<<"keydown", "Enter">>, <<"click", "Kolla">>}
  /\ isCorrect = "false"
  /\ Len(userAnswer) < Len(sequences[current].degrees)
  /\ IsPrefix(userAnswer, sequences[current].degrees)

(***************************************************************************)
(* The parser on its own: parseSequences applied to every string of at     *)
(* most MaxLen characters of ParseAlphabet and to the README's example,    *)
(* and normalizeNote applied to every token of Tokens.                     *)
(***************************************************************************)
\* every note letter; the octave digits 0, 7 and 8; the modifiers; the
\* segment separator; a blank; the letters next after G and g
ParseAlphabet ==
  NoteLetters \cup {"0", "7", "8"} \cup ModifierChars \cup {";", " ", "H", "h"}

StringsUpTo(alphabet, n) == UNION {[1..k -> alphabet] : k \in 0..n}

ParseInputs == StringsUpTo(ParseAlphabet, MaxLen) \cup {ExampleParam}

\* a letter with one digit, a letter with a run of at most MaxMods modifiers,
\* and tokens of neither shape
Tokens ==
  {<<letter>> \o rest :
     letter \in NoteLetters,
     rest \in StringsUpTo(ModifierChars, MaxMods) \cup {<<d>> : d \in DigitChars}}
  \cup {<<>>, <<"H">>, <<"4">>, <<"C", "4", ",">>, <<"C", ",", "4">>}

InitParse ==
  /\ param \in ParseInputs
  /\ MachineInit
  /\ NormalizeIdle
  /\ AudioIdle

NextParse == MountEffect

SpecParse == InitParse /\ [][NextParse]_vars

Normalize ==
  /\ ~normalized.done
  /\ normalized' = [done |-> TRUE, value |-> normalizeNote(token)]
  /\ UNCHANGED <<token, fixedVars, handlerVars, event, audioVars>>

InitNormalize ==
  /\ param = <<>>
  /\ MachineInit
  /\ token \in Tokens
  /\ normalized = [done |-> FALSE, value |-> Null]
  /\ AudioIdle

NextNormalize == Normalize

SpecNormalize == InitNormalize /\ [][NextNormalize]_vars

(***************************************************************************)
(* playSequence of audio.ts on every note list of up to MaxNotes notes.    *)
(***************************************************************************)
InitPlayback ==
  /\ param = <<>>
  /\ MachineInit
  /\ NormalizeIdle
  /\ playNotes \in NoteLists
  /\ pc = "getPiano"
  /\ clock = 0
  /\ ctxTime = [at |-> 0, currentTime |-> NumberOf(0)]
  /\ played = <<>>
  /\ timeout = [at |-> 0, delay |-> 0]

NextPlayback ==
  \/ GetPianoResolved
  \/ ClockTick
  \/ TimeoutFires

SpecPlayback == InitPlayback /\ [][NextPlayback]_vars

(***************************************************************************)
(* Vocabulary of the claims about the parser.                              *)
(***************************************************************************)
OctaveDigits == {"0", "1", "2", "3", "4", "5", "6", "7"}

\* the fixed degree table
DegreeTable ==
  [letter \in UpperLetters |->
     CASE letter = "C" -> 1 [] letter = "D" -> 2 [] letter = "E" -> 3
       [] letter = "F" -> 4 [] letter = "G" -> 5 [] letter = "A" -> 6
       [] OTHER -> 7]

\* the upper-case letter of a note letter
UpperOf ==
  [letter \in NoteLetters |->
     CASE letter \in {"A", "a"} -> "A" [] letter \in {"B", "b"} -> "B"
       [] letter \in {"C", "c"} -> "C" [] letter \in {"D", "d"} -> "D"
       [] letter \in {"E", "e"} -> "E" [] letter \in {"F", "f"} -> "F"
       [] OTHER -> "G"]

\* a text is a run of valid tokens: every character is a note letter, a digit
\* directly after a note letter, or a modifier directly after a note letter
\* or after another such modifier
IsTokenRun(s) ==
  \A i \in 1..Len(s) :
    \/ s[i] \in NoteLetters
    \/ i > 1 /\ s[i] \in DigitChars /\ s[i - 1] \in NoteLetters
    \/ i > 1 /\ s[i] \in ModifierChars /\ s[i - 1] \in NoteLetters \cup ModifierChars

\* the segment holds no piece that is not a valid token
IsCleanSegment(segment) == IsTokenRun(SelectSeq(segment, IsNotWhitespace))

\* an ABC token: a note letter and a run of modifiers
IsAbcToken(t) ==
  /\ Len(t) >= 1
  /\ t[1] \in NoteLetters
  /\ \A i \in 2..Len(t) : t[i] \in ModifierChars

Count(t, ch) == Cardinality({i \in 1..Len(t) : t[i] = ch})

\* the octave of an ABC token: the base moved by the modifiers, clamped once
AbcOctave(t) ==
  LET base == IF t[1] \in UpperLetters THEN 4 ELSE 5
      sum == base - Count(t, ",") + Count(t, "'")
  IN  IF sum < 0 THEN 0 ELSE IF sum > 7 THEN 7 ELSE sum

\* the canonical note of a valid token
NoteOf(t) ==
  IF Len(t) = 2 /\ t[2] \in DigitChars THEN <<UpperOf[t[1]], t[2]>>
  ELSE <<UpperOf[t[1]], DigitChar(AbcOctave(t))>>

\* the positions of the note letters of a text, in order, and the token that
\* starts at the k-th of them and ends before the next
LetterPositions(s) == {i \in 1..Len(s) : s[i] \in NoteLetters}

NthLetter(s, k) ==
  CHOOSE i \in LetterPositions(s) :
    Cardinality({j \in LetterPositions(s) : j <= i}) = k

NthToken(s, k) ==
  LET n == Cardinality(LetterPositions(s))
      from == NthLetter(s, k)
      to == IF k < n THEN NthLetter(s, k + 1) - 1 ELSE Len(s)
  IN  SubSeq(s, from, to)

\* the Sequence a run of valid tokens stands for
SequenceOf(s) ==
  LET n == Cardinality(LetterPositions(s))
  IN  [notes |-> [k \in 1..n |-> NoteOf(NthToken(s, k))],
       degrees |-> [k \in 1..n |-> DegreeTable[UpperOf[s[NthLetter(s, k)]]]]]

AllSequences == {sequences[i] : i \in 1..Len(sequences)}

(***************************************************************************)
(* C6. Segment atomicity: a segment that holds a piece that is no valid    *)
(* token contributes no Sequence, so the result is what the segments made  *)
(* of valid tokens only contribute.                                        *)
(***************************************************************************)
C6_SegmentAtomicity ==
  mounted =>
    sequences =
      SelectSeq(ParseAll(SelectSeq(Segments(param), IsCleanSegment)), KeepSequence)

(***************************************************************************)
(* C7. PitchName domain: every note of every parsed Sequence is an         *)
(* upper-case letter A-G followed by one octave digit in 0..7.             *)
(***************************************************************************)
C7_PitchNameDomain ==
  mounted =>
    \A seq \in AllSequences : \A i \in 1..Len(seq.notes) :
      /\ Len(seq.notes[i]) = 2
      /\ seq.notes[i][1] \in UpperLetters
      /\ seq.notes[i][2] \in OctaveDigits

(***************************************************************************)
(* C8. ABC normalization: an ABC token normalizes to its upper-case letter *)
(* and the octave base - commas + apostrophes clamped once into 0..7 (base *)
(* 4 for an upper-case, 5 for a lower-case letter); bare C is explicit C4, *)
(* bare c is explicit C5.                                                  *)
(***************************************************************************)
C8_AbcNormalization ==
  normalized.done =>
    /\ IsAbcToken(token) =>
         normalized.value = <<UpperOf[token[1]], DigitChar(AbcOctave(token))>>
    /\ token \in {<<"C">>, <<"C", "4">>} => normalized.value = <<"C", "4">>
    /\ token \in {<<"c">>, <<"C", "5">>} => normalized.value = <<"C", "5">>

\* a run of commas has driven the octave below 0 and it saturated at 0
C8_Witness ==
  /\ normalized.done
  /\ token = <<"C", ",", ",", ",", ",", ",">>
  /\ normalized.value = <<"C", "0">>

(***************************************************************************)
(* C9. Dense tokenization: the README's example parses to its two          *)
(* Sequences in order, and a single segment written as a run of valid      *)
(* tokens yields exactly one Sequence with one note per token, a comma     *)
(* after a letter lowering that letter's octave.                           *)
(***************************************************************************)
C9_DenseTokenization ==
  mounted =>
    /\ param = ExampleParam =>
         sequences =
           << [notes |-> << <<"C", "4">>, <<"F", "4">>, <<"G", "4">>, <<"C", "5">> >>,
               degrees |-> <<1, 4, 5, 1>>],
              [notes |-> << <<"C", "3">>, <<"E", "4">>, <<"G", "4">>, <<"C", "5">> >>,
               degrees |-> <<1, 3, 5, 1>>] >>
    /\ (Len(param) > 0 /\ IsTokenRun(param)) => sequences = <<SequenceOf(param)>>

\* the example has been parsed
C9_Witness ==
  /\ mounted
  /\ param = ExampleParam
  /\ Len(sequences) = 2

(***************************************************************************)
(* C10. Sequence well-formedness: every parsed Sequence is non-empty, has  *)
(* as many degrees as notes, each degree the table value (1..7) of its     *)
(* note's letter; the empty string parses to the empty list.               *)
(***************************************************************************)
C10_WellFormed ==
  mounted =>
    /\ \A seq \in AllSequences :
         /\ Len(seq.notes) > 0
         /\ Len(seq.notes) = Len(seq.degrees)
         /\ \A i \in 1..Len(seq.notes) :
              /\ seq.notes[i][1] \in UpperLetters
              /\ seq.degrees[i] = DegreeTable[seq.notes[i][1]]
              /\ seq.degrees[i] \in 1..7
    /\ param = <<>> => sequences = <<>>

\* two segments have been parsed to the degrees 7 and 6
C10_Witness ==
  /\ mounted
  /\ param = <<"b", ";", "A">>
  /\ sequences = << [notes |-> << <<"B", "5">> >>, degrees |-> <<7>>],
                    [notes |-> << <<"A", "4">> >>, degrees |-> <<6>>] >>

(***************************************************************************)
(* C11. Start with an empty collection is refused: as long as sequences    *)
(* is empty the machine is idle, no playback is requested or in flight,    *)
(* and the current sequence, answer, grading and revealed flag keep their  *)
(* initial values, whatever events are delivered.                          *)
(***************************************************************************)
C11_EmptyCollectionIdle ==
  Len(sequences) = 0 =>
    /\ gameState = "idle"
    /\ playbacks = <<>>
    /\ ~isPlaying
    /\ current = NullRef
    /\ userAnswer = <<>>
    /\ isCorrect = "null"
    /\ ~showAnswer

\* Enter was pressed in `idle`, the piano loaded, with no sequence configured
C11_Witness ==
  /\ mounted
  /\ ~isLoading
  /\ Len(sequences) = 0
  /\ event = <<"keydown", "Enter">>
  /\ gameState = "idle"

(***************************************************************************)
(* C12. Retry guard: a retry takes effect (tryAgain requests a playback,   *)
(* or the "Forsok igen" button takes a click) only in `result` with an     *)
(* incorrect grading that has not been revealed.                           *)
(***************************************************************************)
C12_RetryGuard ==
  [][(Requests("tryAgain") \/ event' = <<"click", "Forsok igen">>)
       => (gameState = "result" /\ isCorrect = "false" /\ ~showAnswer)]_vars

\* a click on "Forsok igen" was accepted
C12_Witness ==
  /\ event = <<"click", "Forsok igen">>
  /\ gameState = "playing"
  /\ \E i \in 1..Len(playbacks) : playbacks[i].owner = "tryAgain"

(***************************************************************************)
(* C13. Reveal: the revealed flag is set only by a step from `result`      *)
(* with an incorrect grading, which leaves gameState, the answer, the      *)
(* grading and the current sequence unchanged; whenever the flag is set,   *)
(* gameState is `result` and the grading is incorrect.                     *)
(***************************************************************************)
C13_Reveal ==
  [][/\ showAnswer => (gameState = "result" /\ isCorrect = "false")
     /\ showAnswer' => (gameState' = "result" /\ isCorrect' = "false")
     /\ (~showAnswer /\ showAnswer')
          => /\ gameState = "result"
             /\ isCorrect = "false"
             /\ event' \in {<<"keydown", "s">>, <<"click", "Visa svar">>}
             /\ UNCHANGED <<gameState, userAnswer, isCorrect, current>>]_vars

\* the answer was revealed with the S key
C13_Witness ==
  /\ showAnswer
  /\ event = <<"keydown", "s">>

(***************************************************************************)
(* C14. Advance: startRound is reached from `result` only when the round   *)
(* is graded correct or revealed; it then empties the answer, clears the   *)
(* grading and the revealed flag, moves to `playing` and requests the      *)
(* playback of the sequence it chose.                                      *)
(***************************************************************************)
C14_Advance ==
  [][(gameState = "result" /\
      (Requests("startRound") \/ event' = <<"click", "Nasta">>))
       => /\ isCorrect = "true" \/ showAnswer
          /\ userAnswer' = <<>>
          /\ isCorrect' = "null"
          /\ ~showAnswer'
          /\ gameState' = "playing"
          /\ isPlaying'
          /\ current' \in 1..Len(sequences)
          /\ Requests("startRound")
          /\ playbacks'[Len(playbacks')].seq = current'
          /\ playbacks'[Len(playbacks')].remaining = Len(sequences[current'].notes)]_vars

\* the next round was begun with the "Nasta" button
C14_Witness ==
  /\ event = <<"click", "Nasta">>
  /\ gameState = "playing"
  /\ userAnswer = <<>>

(***************************************************************************)
(* C15. Submit is idempotent and defensive: in `answering` with an empty   *)
(* answer, and in `result` right after an accepted submit, a call of       *)
(* submit changes nothing: gameState, the grading, the answer and the      *)
(* revealed flag stay as they are.                                         *)
(***************************************************************************)
SubmitWouldChange ==
  ENABLED (submit /\ handlerVars' # handlerVars /\ UNCHANGED <<fixedVars, normalizeVars, audioVars, event>>)

\* C15: a call of submit with an empty answer, or right after an accepted
\* submit, changes no state
C15_SubmitIdempotent ==
  /\ (gameState = "answering" /\ Len(userAnswer) = 0) => ~SubmitWouldChange
  /\ (gameState = "result" /\ event \in {<<"keydown", "Enter">>, <<"click", "Kolla">>})
       => ~SubmitWouldChange

\* a submit has just been accepted and graded correct
C15_Witness ==
  /\ gameState = "result"
  /\ event = <<"click", "Kolla">>
  /\ isCorrect = "true"

(***************************************************************************)
(* C16. Playback duration: when the promise of playSequence is resolved,   *)
(* at least n * 600 ms have passed since the call for a list of n notes    *)
(* (noteDuration 0.5 s, gap 0.1 s), every note of the list was scheduled   *)
(* and has finished sounding, and for n = 0 no note was scheduled.         *)
(***************************************************************************)
\* the instant the note stops, on the audio clock
NoteEnd(n) == ExactAdd(n.when, n.duration)

\* the note has stopped by now: when + duration <= currentTime + elapsed / 1000
NoteFinished(n) ==
  ExactLeq(ExactMul(NoteEnd(n), NumberOf(1000)),
           ExactAdd(ExactMul(ctxTime.currentTime, NumberOf(1000)),
                    NumberOf(clock - ctxTime.at)))

\* C16: the promise resolves no earlier than n * 600 ms after the call, with
\* every note scheduled and finished
C16_PlaybackDuration ==
  pc = "resolved" =>
    /\ clock >= Len(playNotes) * 600
    /\ Len(played) = Len(playNotes)
    /\ \A i \in 1..Len(played) : NoteFinished(played[i])
    /\ Len(playNotes) = 0 => played = <<>>

(***************************************************************************)
(* C17. Replay frame: the step that issues an accepted replay and the step *)
(* that resumes replay after its playback leave gameState, the answer, the *)
(* grading, the revealed flag and the current sequence unchanged; the      *)
(* replay is issued in `answering` or `result` and plays the current       *)
(* sequence's notes; only isPlaying (and the playback itself) changes.     *)
(***************************************************************************)
C17_ReplayFrame ==
  [][/\ Requests("replay")
          => /\ UNCHANGED roundVars
             /\ gameState \in {"answering", "result"}
             /\ ~isPlaying /\ isPlaying'
             /\ playbacks'[Len(playbacks')].seq = current
             /\ playbacks'[Len(playbacks')].remaining = Len(sequences[current].notes)
     /\ event' = <<"resolve", "replay">>
          => /\ UNCHANGED roundVars
             /\ ~isPlaying'
     /\ (gameState \in {"answering", "result"} /\ userAnswer' # userAnswer)
          => event' \notin {<<"keydown", "r">>, <<"click", "Spela igen">>,
                            <<"resolve", "replay">>}]_vars

\* a replay issued over a non-empty answer has completed
C17_Witness ==
  /\ event = <<"resolve", "replay">>
  /\ gameState = "answering"
  /\ Len(userAnswer) > 0
  /\ playbacks = <<>>

(***************************************************************************)
(* C18. Answer editing: outside `answering` addDegree and removeLast       *)
(* change nothing; in `answering` a degree key or button appends exactly   *)
(* that degree, Backspace or "Angra" removes exactly the last element      *)
(* (nothing on an empty answer), so removing after appending restores the  *)
(* answer; every element of the answer is in 1..7, and neither operation   *)
(* changes gameState, the grading or the current sequence.                 *)
(***************************************************************************)
EditWouldChange(edit) ==
  ENABLED (edit /\ handlerVars' # handlerVars /\ UNCHANGED <<fixedVars, normalizeVars, audioVars, event>>)

DegreeEvents(d) == {<<"keydown", DigitChar(d)>>, <<"click", DEGREE_LABELS(d)>>}

RemoveEvents == {<<"keydown", "Backspace">>, <<"click", "Angra">>}

\* C18: addDegree appends, removeLast removes the last element, only in
\* `answering`, and the answer holds degrees 1..7
C18_AnswerEditing ==
  [][/\ \A i \in 1..Len(userAnswer) : userAnswer[i] \in 1..7
     /\ gameState # "answering"
          => /\ ~EditWouldChange(removeLast)
             /\ \A d \in TypedDegrees : ~EditWouldChange(addDegree(d))
     /\ gameState = "answering" =>
          /\ \A d \in TypedDegrees :
               event' \in DegreeEvents(d)
                 => /\ userAnswer' = Append(userAnswer, d)
                    /\ SubSeq(userAnswer', 1, Len(userAnswer') - 1) = userAnswer
          /\ event' \in RemoveEvents
               => /\ Len(userAnswer) = 0 => userAnswer' = <<>>
                  /\ Len(userAnswer) > 0
                       => Append(userAnswer', userAnswer[Len(userAnswer)]) = userAnswer
          /\ event' = <<"keydown", "8">> => UNCHANGED userAnswer
          /\ event' \in RemoveEvents \cup UNION {DegreeEvents(d) : d \in TypedDegrees}
               => UNCHANGED <<gameState, isCorrect, current, showAnswer>>]_vars

\* the last of two appended degrees has been removed with Backspace
C18_Witness ==
  /\ event = <<"keydown", "Backspace">>
  /\ gameState = "answering"
  /\ Len(userAnswer) = 1

(***************************************************************************)
(* C19. Retry effect: the step in which tryAgain is accepted keeps the     *)
(* current sequence and the collection, empties the answer, clears the     *)
(* grading, moves to `playing` and requests the playback of the current    *)
(* sequence's notes; the step that resumes tryAgain moves to `answering`   *)
(* with the same sequence; no step moves from `result` to `answering`.     *)
(***************************************************************************)
C19_RetryEffect ==
  [][/\ Requests("tryAgain")
          => /\ UNCHANGED <<current, sequences, showAnswer>>
             /\ userAnswer' = <<>>
             /\ isCorrect' = "null"
             /\ gameState' = "playing"
             /\ isPlaying'
             /\ playbacks'[Len(playbacks')].seq = current
             /\ playbacks'[Len(playbacks')].remaining = Len(sequences[current].notes)
     /\ event' = <<"resolve", "tryAgain">>
          => /\ gameState = "playing" /\ gameState' = "answering"
             /\ UNCHANGED <<current, sequences, userAnswer, isCorrect>>
     /\ gameState = "result" => gameState' # "answering"
     /\ (gameState = "result" /\ event' = <<"keydown", "Enter">>
           /\ isCorrect = "false" /\ ~showAnswer /\ ~isPlaying)
          => Requests("tryAgain")]_vars

\* a retry was accepted with the Enter key and its playback is sounding
C19_Witness ==
  /\ event = <<"keydown", "Enter">>
  /\ gameState = "playing"
  /\ \E i \in 1..Len(playbacks) : playbacks[i].owner = "tryAgain"

(***************************************************************************)
(* C20. Playback mutual exclusion: at most one playback request is in      *)
(* flight, and isPlaying is true exactly when a playback is outstanding.   *)
(***************************************************************************)
C20_PlaybackMutex ==
  /\ Len(playbacks) <= 1
  /\ isPlaying <=> Len(playbacks) > 0

(***************************************************************************)
(* C21. State/grading consistency: the grading is present exactly when     *)
(* gameState is `result`; outside `idle` the current sequence is a member  *)
(* of the collection; in `playing` the answer is empty; and no step leads  *)
(* from another state back to `idle`.                                      *)
(***************************************************************************)
C21_Consistency ==
  [][/\ (isCorrect' # "null") <=> (gameState' = "result")
     /\ gameState' \in {"idle", "playing", "answering", "result"}
     /\ gameState' # "idle" => current' \in 1..Len(sequences')
     /\ gameState' = "playing" => userAnswer' = <<>>
     /\ gameState # "idle" => gameState' # "idle"]_vars

\* an answer of two degrees has just been graded correct
C21_Witness ==
  /\ gameState = "result"
  /\ isCorrect = "true"
  /\ event = <<"keydown", "Enter">>
  /\ current \in 1..Len(sequences)
  /\ Len(userAnswer) = 2

(***************************************************************************)
(* C22. Progress: when every playback request completes, `playing` always  *)
(* leads to `answering`, and isPlaying, which gates replay and retry,      *)
(* always becomes false again.                                             *)
(***************************************************************************)
C22_Progress ==
  /\ (gameState = "playing") ~> (gameState = "answering")
  /\ isPlaying ~> ~isPlaying

\* the playback of a round has completed and nothing is sounding
C22_Witness ==
  /\ gameState = "answering"
  /\ event = <<"resolve", "startRound">>
  /\ ~isPlaying
  /\ playbacks = <<>>

====
